---- MODULE Spec2Model ----
(***************************************************************************)
(* The Lie group SE(3) of geomstats/special_euclidean_group.py.             *)
(*                                                                         *)
(* Numbers.  The program computes with floating point reals; the model     *)
(* computes exactly, over the integers, on the part of the group where     *)
(* every quantity the code forms is rational:                              *)
(*   - a rotation vector is axis aligned and counts quarter turns, so      *)
(*     <<0, 0, 1>> is the rotation by pi/2 about the third axis; its       *)
(*     rotation matrix is a signed permutation matrix;                     *)
(*   - the exponential and logarithm from the identity are taken where     *)
(*     the rotation part is zero (the code's "angle == 0" branch); the     *)
(*     other branches have irrational coefficients and are not modelled;   *)
(*   - the barycenter solver runs on pure translations, with weights that  *)
(*     are multiples of 1/WeightDen.                                       *)
(*                                                                         *)
(* Objects.  numpy arrays are mutable objects: the group operations act on *)
(* a heap of 6-vectors addressed by references, so that "x = y" followed   *)
(* by a slice assignment to x changes y.                                   *)
(***************************************************************************)
EXTENDS Integers, Sequences, FiniteSets, TLC

(* ----------------------------- bounds --------------------------------- *)
\* Input rotation vectors hold -MaxTurns..MaxTurns quarter turns about an axis.
MaxTurns == 3
\* Input translations of the group operations have coordinates 0..MaxShift.
MaxShift == 1
\* A batch has 0..MaxN points.
MaxN == 3
\* The first translation coordinate of a batch point is in 0..MaxCoord.
MaxCoord == 2
\* A weight is WeightNum / WeightDen with WeightNum in 0..MaxWeightNum.
MaxWeightNum == 2
WeightDen == 2
\* An estimate is followed while its coordinates stay within
\* -MaxEstimate..MaxEstimate.
MaxEstimate == 6
\* Weights are multiplied by 1..MaxScale.
MaxScale == 2
\* Passes of the loop are counted up to MaxPasses ("MaxPasses or more").
MaxPasses == 3

(* ------------------------ numpy on small arrays ----------------------- *)
Zero3 == <<0, 0, 0>>

Eye3 == <<<<1, 0, 0>>, <<0, 1, 0>>, <<0, 0, 1>>>>

Zero33 == <<Zero3, Zero3, Zero3>>

\* np.zeros(6)
Zeros6 == <<0, 0, 0, 0, 0, 0>>

Dot3(u, v) == u[1] * v[1] + u[2] * v[2] + u[3] * v[3]

\* np.dot(matrix, vector)
MatVec(m, v) == <<Dot3(m[1], v), Dot3(m[2], v), Dot3(m[3], v)>>

Column(m, j) == <<m[1][j], m[2][j], m[3][j]>>

\* np.dot(matrix, matrix)
MatMul(a, b) == [i \in 1..3 |-> [j \in 1..3 |-> Dot3(a[i], Column(b, j))]]

MatAdd(a, b) == [i \in 1..3 |-> [j \in 1..3 |-> a[i][j] + b[i][j]]]

MatScale(c, a) == [i \in 1..3 |-> [j \in 1..3 |-> c * a[i][j]]]

VecAdd(u, v) == [i \in DOMAIN u |-> u[i] + v[i]]

VecSub(u, v) == [i \in DOMAIN u |-> u[i] - v[i]]

VecScale(c, v) == [i \in DOMAIN v |-> c * v[i]]

VecNeg(v) == [i \in DOMAIN v |-> 0 - v[i]]

\* transfo[0:3] and transfo[3:6]
RotPart(transfo) == <<transfo[1], transfo[2], transfo[3]>>

TransPart(transfo) == <<transfo[4], transfo[5], transfo[6]>>

\* an array [r t] from its two slices
Concat(r, t) == <<r[1], r[2], r[3], t[1], t[2], t[3]>>

(* ------------- the rotation primitives (SpecialOrthogonalGroup) ------- *)
\* These live in geomstats.special_orthogonal_group, which is not among the
\* sources: they are written from the specification's account of them, on
\* axis-aligned rotation vectors counted in quarter turns.

\* sin and cos of k quarter turns
Sin4(k) == CASE k % 4 = 0 -> 0 [] k % 4 = 1 -> 1 [] k % 4 = 2 -> 0 [] OTHER -> 0 - 1

Cos4(k) == CASE k % 4 = 0 -> 1 [] k % 4 = 1 -> 0 [] k % 4 = 2 -> 0 - 1 [] OTHER -> 0

\* "canonicalize a rotation vector to its shortest representative": the
\* turns about the axis are brought into -1..2 (angle in [0, pi]).
rotations_regularize(rot_vec) == [i \in 1..3 |-> ((rot_vec[i] + 1) % 4) - 1]

\* "build the skew-symmetric generator of a vector"
skew_matrix_from_vector(v) ==
    <<<<0, 0 - v[3], v[2]>>, <<v[3], 0, 0 - v[1]>>, <<0 - v[2], v[1], 0>>>>

\* the unit axis of an axis-aligned rotation vector, and its signed turns
AxisOf(rot_vec) == [i \in 1..3 |-> IF rot_vec[i] = 0 THEN 0 ELSE 1]

TurnsOf(rot_vec) == rot_vec[1] + rot_vec[2] + rot_vec[3]

\* "convert rotation vector -> rotation matrix": Rodrigues' formula
\* I + sin(a) K + (1 - cos(a)) K^2 at a = TurnsOf quarter turns.
matrix_from_rotation_vector(rot_vec) ==
    LET K == skew_matrix_from_vector(AxisOf(rot_vec))
        k == TurnsOf(rot_vec)
    IN  MatAdd(Eye3, MatAdd(MatScale(Sin4(k), K),
                            MatScale(1 - Cos4(k), MatMul(K, K))))

\* the regularized axis-aligned rotation vectors
CanonicalRotVecs ==
    {Zero3} \cup {[i \in 1..3 |-> IF i = a THEN k ELSE 0] :
                      a \in 1..3, k \in {0 - 1, 1, 2}}

\* the rotation matrix of each regularized rotation vector
CanonicalMatrix == [r \in CanonicalRotVecs |-> matrix_from_rotation_vector(r)]

CanonicalMatrices == {CanonicalMatrix[r] : r \in CanonicalRotVecs}

\* whether a rotation matrix is the matrix of an axis-aligned rotation vector
IsAxisRotation(rot_mat) == rot_mat \in CanonicalMatrices

\* "convert rotation matrix -> rotation vector"
rotation_vector_from_matrix(rot_mat) ==
    CHOOSE r \in CanonicalRotVecs : CanonicalMatrix[r] = rot_mat

\* "project an approximate matrix to the closest valid rotation": an exact
\* rotation matrix is its own projection.
closest_rotation_matrix(rot_mat) == rot_mat

\* rotations.jacobian_translation: a 3x3 real matrix the model leaves
\* uninterpreted (it is the identity at the zero rotation vector).
rotations_jacobian_translation(rot_vec, left_or_right) ==
    IF rot_vec = Zero3 THEN [known |-> TRUE, mat |-> Eye3,
                             side |-> left_or_right, at |-> rot_vec]
    ELSE [known |-> FALSE, mat |-> Zero33,
          side |-> left_or_right, at |-> rot_vec]

(* ----------------- SpecialEuclideanGroup: values ---------------------- *)
\* self.identity
IdentityElement == Zeros6

\* the value regularize leaves in (and returns as) its argument
regularize(transfo) ==
    Concat(rotations_regularize(RotPart(transfo)), TransPart(transfo))

\* a wrong inverse, kept for comparison: the translation is rotated but not negated
inverse_keeps_translation_sign(transfo) ==
    LET reg == regularize(transfo)
        rot_vec == RotPart(reg)
        translation == TransPart(reg)
        rot_mat == matrix_from_rotation_vector(VecNeg(rot_vec))
    IN  regularize(Concat(VecNeg(rot_vec), MatVec(rot_mat, translation)))

\* the value inverse returns: (R, t)^-1 = (R^-1, R^-1 . (-t))
inverse(transfo) ==
    LET reg == regularize(transfo)
        rot_vec == RotPart(reg)
        translation == TransPart(reg)
        rot_mat == matrix_from_rotation_vector(VecNeg(rot_vec))
    IN  regularize(Concat(VecNeg(rot_vec), MatVec(rot_mat, VecNeg(translation))))

\* the rotation matrix of the product, before it is converted back
prod_rot_mat(transfo_1, transfo_2) ==
    MatMul(closest_rotation_matrix(matrix_from_rotation_vector(RotPart(transfo_1))),
           closest_rotation_matrix(matrix_from_rotation_vector(RotPart(transfo_2))))

\* the value compose returns: [R1 * R2, (R1 * t2) + t1]
compose(transfo_1, transfo_2) ==
    LET rot_mat_1 == closest_rotation_matrix(
                         matrix_from_rotation_vector(RotPart(transfo_1)))
    IN  regularize(Concat(
            rotation_vector_from_matrix(prod_rot_mat(transfo_1, transfo_2)),
            VecAdd(MatVec(rot_mat_1, TransPart(transfo_2)), TransPart(transfo_1))))

\* the matrix jacobian_translation returns, as its four 3x3 blocks
jacobian_translation(transfo, left_or_right) ==
    LET reg == regularize(transfo)
        rot_vec == RotPart(reg)
        translation == TransPart(reg)
    IN  IF left_or_right = "left"
        THEN [rot |-> rotations_jacobian_translation(rot_vec, "left"),
              top_right |-> Zero33,
              bottom_left |-> Zero33,
              bottom_right |-> matrix_from_rotation_vector(rot_vec)]
        ELSE [rot |-> rotations_jacobian_translation(rot_vec, "right"),
              top_right |-> Zero33,
              bottom_left |-> MatScale(0 - 1, skew_matrix_from_vector(translation)),
              bottom_right |-> Eye3]

\* the branch "ref_point is self.identity" of group_exp, where angle == 0:
\* coef_1 = coef_2 = 0 in translation + coef_1 S t + coef_2 S^2 t
group_exp_from_identity(tangent_vector) ==
    LET reg == regularize(tangent_vector)
        rot_vec == RotPart(reg)
        translation == TransPart(reg)
        skew_mat == skew_matrix_from_vector(rot_vec)
        coef_1 == 0
        coef_2 == 0
    IN  regularize(Concat(rot_vec,
            VecAdd(translation,
                   VecAdd(VecScale(coef_1, MatVec(skew_mat, translation)),
                          VecScale(coef_2, MatVec(MatMul(skew_mat, skew_mat),
                                                  translation))))))

\* the branch "ref_point is self.identity" of group_log, where angle == 0
group_log_from_identity(transfo) ==
    LET reg == regularize(transfo)
        rot_vec == RotPart(reg)
        translation == TransPart(reg)
        skew_rot_vec == skew_matrix_from_vector(rot_vec)
        coef_1 == 0
        coef_2 == 0
    IN  Concat(rot_vec,
            VecAdd(translation,
                   VecAdd(VecScale(coef_1, MatVec(skew_rot_vec, translation)),
                          VecScale(coef_2, MatVec(MatMul(skew_rot_vec, skew_rot_vec),
                                                  translation)))))

\* angle == 0 (np.linalg.norm of the regularized rotation part)
AngleIsZero(v) == RotPart(regularize(v)) = Zero3

(* ------------------------------ state --------------------------------- *)
VARIABLES
    \* the group operations: a heap of numpy arrays
    heap,             \* reference -> the 6-vector the array holds
    live,             \* the references in use
    last,             \* the last call: operation, arguments, result, outcome
    \* one call of a barycenter function
    strategy,         \* which function is called
    transfo_vectors,  \* its Nx6 batch
    weights,          \* its weights, in units of 1 / WeightDen
    pc,               \* where the call is
    riem_mean,        \* the locals of riemannian_mean
    riem_mean_next,
    riem_mean_diff,
    variance,         \* in units of 1 / WeightDen
    passes,           \* completed passes of the loop, counted up to MaxPasses
    returned,         \* <<>> or <<the value returned>>
    raised,           \* "none" or the exception the call raised
    logged,           \* whether logging.info was called
    mean_left_or_right,  \* left_or_right of the riemannian_mean call
    sides             \* computation -> the side it was last made with

groupVars == <<heap, live, last>>

solverVars == <<strategy, transfo_vectors, weights, pc, riem_mean, riem_mean_next,
                riem_mean_diff, variance, passes, returned, raised, logged,
                mean_left_or_right, sides>>

vars == <<groupVars, solverVars>>

(* ------------------ SpecialEuclideanGroup: the heap ------------------- *)
\* The arrays of one session with a group: self.identity (made by __init__),
\* one array of the caller's, and the arrays the first two calls that make
\* one return.
IdentityRef == "identity"

InputRef == "x"

ResultRefs == <<"y", "z">>

Refs == {IdentityRef, InputRef, ResultRefs[1], ResultRefs[2]}

\* a returned array that is not on the heap (a 6x6 matrix), or no array
NoRef == "-"

NoMatrix == <<>>

NoCall == [op |-> "none", args |-> <<>>, side |-> "-", result |-> NoRef,
           matrix |-> NoMatrix, outcome |-> "none"]

Returned(op, args, result) ==
    [op |-> op, args |-> args, side |-> "-", result |-> result,
     matrix |-> NoMatrix, outcome |-> "returned"]

Raised(op, args, exception) ==
    [op |-> op, args |-> args, side |-> "-", result |-> NoRef,
     matrix |-> NoMatrix, outcome |-> exception]

\* the caller's array: quarter turns about the third axis, and a translation
InputRotVecs == {<<0, 0, k>> : k \in (0 - MaxTurns)..MaxTurns}

InputElements ==
    {Concat(r, <<a, b, 0>>) : r \in InputRotVecs, a \in 0..MaxShift, b \in 0..MaxShift}

\* np.zeros(6) makes a new array
HasRoom == Cardinality(live) < Cardinality(Refs)

NewRef == ResultRefs[Cardinality(live) - 1]

\* no side: the call takes none, or the computation was not made yet
NoSide == "-"

\* the computations of a pass of riemannian_mean that take a side
SidedSteps == {"log", "exp", "diff_log", "diff_norm", "variance",
               "variance_log", "variance_norm"}

NoSides == [c \in SidedSteps |-> NoSide]

\* riemannian_variance(..., left_or_right='left', ...): the side of a call
\* that passes none
VarianceDefaultSide == "left"

\* the side of the module-level square_riemannian_norm when none is passed
NormDefaultSide == "left"

\* no barycenter call
SolverIdle ==
    /\ strategy = "none"
    /\ transfo_vectors = <<>>
    /\ weights = <<>>
    /\ pc = "idle"
    /\ riem_mean = Zeros6
    /\ riem_mean_next = Zeros6
    /\ riem_mean_diff = 0
    /\ variance = 0
    /\ passes = 0
    /\ returned = <<>>
    /\ raised = "none"
    /\ logged = FALSE
    /\ mean_left_or_right = NoSide
    /\ sides = NoSides

\* a group whose identity was built by __init__, and one array of the caller's
GroupInit ==
    /\ \E x \in InputElements :
           heap = [r \in Refs |-> IF r = InputRef THEN x ELSE Zeros6]
    /\ live = {IdentityRef, InputRef}
    /\ last = NoCall
    /\ SolverIdle

\* regularize(transfo): "regularized_transfo = transfo" names the same array,
\* the slice assignment writes into it, and it is what the call returns.
CallRegularize(transfo) ==
    /\ transfo \in live
    /\ heap' = [heap EXCEPT ![transfo] = regularize(@)]
    /\ last' = Returned("regularize", <<transfo>>, transfo)
    /\ UNCHANGED <<live, solverVars>>

\* inverse(transfo): regularizes transfo in place, fills a new array
CallInverse(transfo) ==
    /\ transfo \in live
    /\ HasRoom
    /\ heap' = [heap EXCEPT ![transfo] = regularize(@),
                            ![NewRef] = inverse(heap[transfo])]
    /\ live' = live \cup {NewRef}
    /\ last' = Returned("inverse", <<transfo>>, NewRef)
    /\ UNCHANGED solverVars

\* compose(transfo_1, transfo_2): reads both, fills a new array
CallCompose(transfo_1, transfo_2) ==
    /\ transfo_1 \in live
    /\ transfo_2 \in live
    /\ HasRoom
    /\ IsAxisRotation(prod_rot_mat(heap[transfo_1], heap[transfo_2]))
    /\ heap' = [heap EXCEPT ![NewRef] = compose(heap[transfo_1], heap[transfo_2])]
    /\ live' = live \cup {NewRef}
    /\ last' = Returned("compose", <<transfo_1, transfo_2>>, NewRef)
    /\ UNCHANGED solverVars

\* jacobian_translation(transfo, left_or_right): regularizes transfo in
\* place, returns a new 6x6 array
CallJacobianTranslation(transfo, left_or_right) ==
    /\ transfo \in live
    /\ heap' = [heap EXCEPT ![transfo] = regularize(@)]
    /\ last' = [op |-> "jacobian_translation", args |-> <<transfo>>,
                side |-> left_or_right, result |-> NoRef,
                matrix |-> <<jacobian_translation(heap[transfo], left_or_right)>>,
                outcome |-> "returned"]
    /\ UNCHANGED <<live, solverVars>>

\* group_exp(tangent_vector, ref_point).  With "ref_point is self.identity"
\* the exponential from the identity fills a new array.  Otherwise ref_point
\* is regularized, the Jacobian is inverted and applied, and the call
\* self.group_exp(tangent_vector_at_identity) passes no ref_point: TypeError.
CallGroupExp(tangent_vector, ref_point) ==
    /\ tangent_vector \in live
    /\ ref_point \in live
    /\ IF ref_point = IdentityRef
       THEN /\ AngleIsZero(heap[tangent_vector])
            /\ HasRoom
            /\ heap' = [heap EXCEPT ![tangent_vector] = regularize(@),
                          ![NewRef] = group_exp_from_identity(heap[tangent_vector])]
            /\ live' = live \cup {NewRef}
            /\ last' = Returned("group_exp", <<tangent_vector, ref_point>>, NewRef)
       ELSE /\ heap' = [heap EXCEPT ![tangent_vector] = regularize(@),
                                    ![ref_point] = regularize(@)]
            /\ last' = Raised("group_exp", <<tangent_vector, ref_point>>, "TypeError")
            /\ UNCHANGED live
    /\ UNCHANGED solverVars

\* group_log(transfo, ref_point).  With "ref_point is self.identity" the
\* logarithm from the identity fills a new array.  Otherwise ref_point is
\* regularized and self.jacobiance_translation is looked up: AttributeError.
CallGroupLog(transfo, ref_point) ==
    /\ transfo \in live
    /\ ref_point \in live
    /\ IF ref_point = IdentityRef
       THEN /\ AngleIsZero(heap[transfo])
            /\ HasRoom
            /\ heap' = [heap EXCEPT ![transfo] = regularize(@),
                          ![NewRef] = group_log_from_identity(heap[transfo])]
            /\ live' = live \cup {NewRef}
            /\ last' = Returned("group_log", <<transfo, ref_point>>, NewRef)
       ELSE /\ heap' = [heap EXCEPT ![transfo] = regularize(@),
                                    ![ref_point] = regularize(@)]
            /\ last' = Raised("group_log", <<transfo, ref_point>>, "AttributeError")
            /\ UNCHANGED live
    /\ UNCHANGED solverVars

GroupNext ==
    \/ \E t \in Refs : CallRegularize(t)
    \/ \E t \in Refs : CallInverse(t)
    \/ \E t1 \in Refs, t2 \in Refs : CallCompose(t1, t2)
    \/ \E t \in Refs, side \in {"left", "right"} : CallJacobianTranslation(t, side)
    \/ \E v \in Refs, r \in Refs : CallGroupExp(v, r)
    \/ \E t \in Refs, r \in Refs : CallGroupLog(t, r)

GroupSpec == GroupInit /\ [][GroupNext]_vars

(* ------------------------ the barycenter solver ----------------------- *)
\* epsilon=1e-5, the tolerance of riemannian_mean, as EpsilonNum / EpsilonDen
EpsilonNum == 1

EpsilonDen == 100000

\* a pure translation along the first axis
BatchPoint(x) == <<0, 0, 0, x, 0, 0>>

BatchPoints == {BatchPoint(x) : x \in 0..MaxCoord}

\* the Nx6 arrays of 0..MaxN points, as sequences of rows
Batches == UNION {[1..n -> BatchPoints] : n \in 0..MaxN}

\* the weights of an n-row batch, in units of 1 / WeightDen
WeightVectors(n) == [1..n -> 0..MaxWeightNum]

Dot6(u, v) == Dot3(RotPart(u), RotPart(v)) + Dot3(TransPart(u), TransPart(v))

\* riemannian_log, riemannian_exp and the module-level square_riemannian_norm
\* are called by the solver and defined in none of the sources.  They are
\* written from the specification, for pure translations.  The logarithm at
\* a base point composes the inverse of the base point with the target,
\* takes the logarithm from the identity and maps it through the Jacobian of
\* the base point: inverse(p) . q is the translation q - p, its logarithm
\* from the identity (angle == 0) is q - p, and the Jacobian of a pure
\* translation acts as the identity on it.  The exponential at a base point
\* is its inverse, p + v.  The squared norm is v^T M v with M the canonical
\* inner product np.eye(6).
riemannian_log(point, ref_point) == VecSub(point, ref_point)

riemannian_exp(tangent_vector, ref_point) == VecAdd(ref_point, tangent_vector)

square_riemannian_norm(tangent_vector) == Dot6(tangent_vector, tangent_vector)

\* rotations.riemannian_mean, "a weighted intrinsic mean over rotations",
\* of a batch whose rotation vectors are all the same
rotations_riemannian_mean(rotation_vectors, w) ==
    rotations_regularize(rotation_vectors[1])

\* riemannian_variance(ref_point, transfo_vectors, weights), in units of
\* 1 / WeightDen: "for i in range(1, n_transformations)" is rows 2..n here.
RECURSIVE VarianceRows(_, _, _, _)
VarianceRows(ref_point, tv, w, i) ==
    IF i < 2 THEN 0
    ELSE VarianceRows(ref_point, tv, w, i - 1)
         + w[i] * square_riemannian_norm(riemannian_log(tv[i], ref_point))

riemannian_variance(ref_point, tv, w) ==
    IF Len(tv) < 2 THEN 0 ELSE VarianceRows(ref_point, tv, w, Len(tv))

\* aux after "for i in range(0, n_transformations)", in units of
\* 1 / WeightDen: component c of the sum of weight_i * riem_log_i over
\* rows 1..i, and the vector of the six sums
RECURSIVE WeightedLogSum(_, _, _, _, _)
WeightedLogSum(ref_point, tv, w, c, i) ==
    IF i = 0 THEN 0
    ELSE WeightedLogSum(ref_point, tv, w, c, i - 1)
         + w[i] * riemannian_log(tv[i], ref_point)[c]

WeightedLogs(ref_point, tv, w) ==
    [c \in 1..6 |-> WeightedLogSum(ref_point, tv, w, c, Len(tv))]

\* whether a vector in units of 1 / WeightDen is a vector of integers
Exact(v) == \A i \in DOMAIN v : v[i] % WeightDen = 0

Unscaled(v) == [i \in DOMAIN v |-> v[i] \div WeightDen]

InWindow(v) == \A i \in DOMAIN v : v[i] >= 0 - MaxEstimate /\ v[i] <= MaxEstimate

\* one pass, first half: riem_mean_next = riem_mean, aux, the new riem_mean.
\* followed says whether the new estimate is a vector the model can hold.
NextEstimate(tv, w, mean) ==
    LET aux == WeightedLogs(mean, tv, w)
        new == riemannian_exp(Unscaled(aux), mean)
    IN  IF Exact(aux) /\ InWindow(new)
        THEN [followed |-> TRUE, riem_mean |-> new]
        ELSE [followed |-> FALSE, riem_mean |-> mean]

\* one pass, second half: riem_mean_diff, and the variance at riem_mean_next
MeanDiff(mean, mean_next) ==
    square_riemannian_norm(riemannian_log(mean, mean_next))

\* "if riem_mean_diff < epsilon * variance", with the variance in units of
\* 1 / WeightDen
ToleranceMet(diff, var) == diff * EpsilonDen * WeightDen < EpsilonNum * var

Capped(n) == IF n < MaxPasses THEN n ELSE MaxPasses

\* riemannian_mean as a function of its arguments, followed for at most
\* fuel passes: how it ended, the estimate, the passes made.  The loop's
\* only state at the head of a pass is riem_mean, so a pass that starts at
\* an estimate an earlier pass started at ("loops") is never left.
RECURSIVE MeanLoop(_, _, _, _, _, _)
MeanLoop(tv, w, mean, seen, done, fuel) ==
    IF mean \in seen THEN [status |-> "loops", riem_mean |-> mean, passes |-> done]
    ELSE IF fuel = 0 THEN [status |-> "running", riem_mean |-> mean, passes |-> done]
    ELSE LET step == NextEstimate(tv, w, mean)
             diff == MeanDiff(step.riem_mean, mean)
             var == riemannian_variance(mean, tv, w)
         IN  IF ~step.followed
             THEN [status |-> "unmodelled", riem_mean |-> mean, passes |-> done]
             ELSE IF ToleranceMet(diff, var)
             THEN [status |-> "returned", riem_mean |-> step.riem_mean,
                   passes |-> done + 1]
             ELSE MeanLoop(tv, w, step.riem_mean, seen \cup {mean}, done + 1, fuel - 1)

RiemannianMeanRun(tv, w) ==
    IF Len(tv) = 0
    THEN [status |-> "IndexError", riem_mean |-> Zeros6, passes |-> 0]
    ELSE MeanLoop(tv, w, tv[1], {}, 0, MaxPasses)

\* exponential_matrix(rot_vec) where angle == 0: coef_1 = coef_2 = 0 in
\* np.eye(3) + coef_1 * skew + coef_2 * skew^2
exponential_matrix(rot_vec) ==
    LET skew_rot_vec == skew_matrix_from_vector(rotations_regularize(rot_vec))
        coef_1 == 0
        coef_2 == 0
    IN  MatAdd(Eye3, MatAdd(MatScale(coef_1, skew_rot_vec),
                            MatScale(coef_2, MatMul(skew_rot_vec, skew_rot_vec))))

\* np.linalg.inv of a signed permutation matrix is its transpose
InvRotation(m) == [i \in 1..3 |-> [j \in 1..3 |-> m[j][i]]]

\* the loop of exponential_barycenter: matrix and translation after rows
\* 1..i, both in units of 1 / WeightDen
RECURSIVE BarycenterSums(_, _, _, _)
BarycenterSums(tv, w, mean_rotation, i) ==
    IF i = 0 THEN [matrix |-> Zero33, translation |-> Zero3]
    ELSE LET before == BarycenterSums(tv, w, mean_rotation, i - 1)
             rot_vec_i == RotPart(tv[i])
             translation_i == TransPart(tv[i])
             inv_rot_mat_i == matrix_from_rotation_vector(VecNeg(rot_vec_i))
             mean_rotation_mat == matrix_from_rotation_vector(mean_rotation)
             vec_aux == rotation_vector_from_matrix(
                            MatMul(mean_rotation_mat, inv_rot_mat_i))
             matrix_aux == InvRotation(exponential_matrix(vec_aux))
         IN  [matrix |-> MatAdd(before.matrix, MatScale(w[i], matrix_aux)),
              translation |-> VecAdd(before.translation,
                                 VecScale(w[i], MatVec(MatMul(matrix_aux, inv_rot_mat_i),
                                                       translation_i)))]

\* what exponential_barycenter does with a batch: the exception it raises,
\* or the mean it returns.  The accumulated matrix is c * np.eye(3) here, so
\* np.linalg.inv(matrix) divides by c (and raises LinAlgError at c = 0).
ExponentialBarycenterRun(tv, w) ==
    IF Len(tv) < 2
    THEN [status |-> "ValueError", mean |-> Zeros6]
    ELSE LET rotation_vectors == [i \in 1..Len(tv) |-> RotPart(tv[i])]
             mean_rotation == rotations_riemannian_mean(rotation_vectors, w)
             sums == BarycenterSums(tv, w, mean_rotation, Len(tv))
             c == sums.matrix[1][1]
         IN  IF c = 0 THEN [status |-> "LinAlgError", mean |-> Zeros6]
             ELSE IF \E i \in 1..3 : sums.translation[i] % c # 0
             THEN [status |-> "unmodelled", mean |-> Zeros6]
             ELSE [status |-> "returned",
                   mean |-> Concat(mean_rotation,
                                   [i \in 1..3 |-> sums.translation[i] \div c])]

\* no group session
GroupIdle ==
    /\ heap = [r \in Refs |-> Zeros6]
    /\ live = {IdentityRef}
    /\ last = NoCall

\* a call of one of the two barycenter functions on a batch and its weights
Init ==
    /\ strategy \in {"riemannian_mean", "exponential_barycenter"}
    /\ transfo_vectors \in Batches
    /\ weights \in WeightVectors(Len(transfo_vectors))
    /\ pc = "entry"
    /\ riem_mean = Zeros6
    /\ riem_mean_next = Zeros6
    /\ riem_mean_diff = 0
    /\ variance = 0
    /\ passes = 0
    /\ returned = <<>>
    /\ raised = "none"
    /\ logged = FALSE
    /\ mean_left_or_right \in (IF strategy = "riemannian_mean"
                          THEN {"left", "right"} ELSE {NoSide})
    /\ sides = NoSides
    /\ GroupIdle

\* riemannian_mean up to its loop: n < 2 is logged and nothing else;
\* transfo_vectors[0, :] of an empty batch raises IndexError.
RiemannianMeanEntry ==
    /\ pc = "entry"
    /\ strategy = "riemannian_mean"
    /\ logged' = (Len(transfo_vectors) < 2)
    /\ IF Len(transfo_vectors) = 0
       THEN /\ pc' = "raised"
            /\ raised' = "IndexError"
            /\ UNCHANGED riem_mean
       ELSE /\ pc' = "update"
            /\ riem_mean' = transfo_vectors[1]
            /\ UNCHANGED raised
    /\ UNCHANGED <<strategy, transfo_vectors, weights, riem_mean_next, riem_mean_diff,
                   variance, passes, returned, mean_left_or_right, sides, groupVars>>

\* the side of the logarithms and norms inside riemannian_variance called
\* with left_or_right = side: its loop passes the side on, and a batch of
\* fewer than 2 rows returns before the loop
VarianceLoopSide(before, side) ==
    IF Len(transfo_vectors) < 2 THEN before ELSE side

\* the first half of a pass of "while True"
UpdateEstimate ==
    /\ pc = "update"
    /\ LET step == NextEstimate(transfo_vectors, weights, riem_mean)
       IN  IF step.followed
           THEN /\ riem_mean_next' = riem_mean
                /\ riem_mean' = step.riem_mean
                /\ pc' = "test"
           ELSE /\ pc' = "unmodelled"
                /\ UNCHANGED <<riem_mean, riem_mean_next>>
    /\ sides' = [sides EXCEPT !["log"] = mean_left_or_right,
                              !["exp"] = mean_left_or_right]
    /\ UNCHANGED <<strategy, transfo_vectors, weights, riem_mean_diff, variance,
                   passes, returned, raised, logged, mean_left_or_right, groupVars>>

\* the second half of a pass: the test, and "break" then "return riem_mean"
ConvergenceTest ==
    /\ pc = "test"
    /\ riem_mean_diff' = MeanDiff(riem_mean, riem_mean_next)
    /\ variance' = riemannian_variance(riem_mean_next, transfo_vectors, weights)
    /\ logged' = (logged \/ Len(transfo_vectors) < 2)
    /\ passes' = Capped(passes + 1)
    /\ IF ToleranceMet(riem_mean_diff', variance')
       THEN /\ pc' = "done"
            /\ returned' = <<riem_mean>>
       ELSE /\ pc' = "update"
            /\ UNCHANGED returned
    /\ sides' = [sides EXCEPT
                     !["diff_log"] = mean_left_or_right,
                     !["diff_norm"] = NormDefaultSide,
                     !["variance"] = VarianceDefaultSide,
                     !["variance_log"] = VarianceLoopSide(@, VarianceDefaultSide),
                     !["variance_norm"] = VarianceLoopSide(@, VarianceDefaultSide)]
    /\ UNCHANGED <<strategy, transfo_vectors, weights, riem_mean, riem_mean_next,
                   raised, mean_left_or_right, groupVars>>

\* exponential_barycenter, from its call to its return or its exception
ExponentialBarycenter ==
    /\ pc = "entry"
    /\ strategy = "exponential_barycenter"
    /\ LET run == ExponentialBarycenterRun(transfo_vectors, weights)
       IN  CASE run.status = "returned" ->
                    /\ pc' = "done"
                    /\ returned' = <<run.mean>>
                    /\ UNCHANGED raised
             [] run.status = "unmodelled" ->
                    /\ pc' = "unmodelled"
                    /\ UNCHANGED <<returned, raised>>
             [] OTHER ->
                    /\ pc' = "raised"
                    /\ raised' = run.status
                    /\ UNCHANGED returned
    /\ UNCHANGED <<strategy, transfo_vectors, weights, riem_mean, riem_mean_next,
                   riem_mean_diff, variance, passes, logged, mean_left_or_right, sides,
                   groupVars>>

Next ==
    \/ RiemannianMeanEntry
    \/ UpdateEstimate
    \/ ConvergenceTest
    \/ ExponentialBarycenter

Spec == Init /\ [][Next]_vars

\* a call of riemannian_mean that can take its next step takes it: the
\* interpreter does not stop between two statements of the function
FairSpec ==
    /\ Spec
    /\ WF_vars(RiemannianMeanEntry)
    /\ WF_vars(UpdateEstimate)
    /\ WF_vars(ConvergenceTest)

(* ------------------------------ claims -------------------------------- *)
Ended == pc \in {"done", "raised"}

\* the run left the vectors the model can hold, and is followed no further
Unfollowed == pc = "unmodelled"

\* C1: every call of riemannian_mean leaves its loop: after a bounded
\* number of passes the call has ended, whether or not the test was met.
C1_LoopExits == (strategy = "riemannian_mean") => <>(Ended \/ Unfollowed)

AllSame(tv) == \A i \in 1..Len(tv) : tv[i] = tv[1]

\* the variance over every row of the batch, in units of 1 / WeightDen
RECURSIVE FullVariance(_, _, _, _)
FullVariance(ref_point, tv, w, i) ==
    IF i = 0 THEN 0
    ELSE FullVariance(ref_point, tv, w, i - 1)
         + w[i] * square_riemannian_norm(riemannian_log(tv[i], ref_point))

\* C2: riemannian_mean of n >= 2 identical points with positive weights
\* returns that point, and the weighted variance at the result is 0.
C2_IdenticalPointsReturnThePoint ==
    (/\ strategy = "riemannian_mean"
     /\ Len(transfo_vectors) >= 2
     /\ AllSame(transfo_vectors)
     /\ \A i \in 1..Len(weights) : weights[i] > 0)
    => <>(/\ pc = "done"
          /\ returned = <<transfo_vectors[1]>>
          /\ FullVariance(returned[1], transfo_vectors, weights,
                          Len(transfo_vectors)) = 0)

ScaleWeights(w, k) == [i \in 1..Len(w) |-> k * w[i]]

\* a run the model could not follow to its end decides nothing
Undecided(run) == run.status \in {"unmodelled", "running"}

\* C3: multiplying every weight by the same positive constant leaves the
\* result of riemannian_mean unchanged, and the pass at which it stops.
C3_WeightsAreRelative ==
    (pc = "done" /\ strategy = "riemannian_mean")
    => \A k \in 1..MaxScale :
           LET scaled == RiemannianMeanRun(transfo_vectors, ScaleWeights(weights, k))
           IN  \/ Undecided(scaled)
               \/ scaled = [status |-> "returned", riem_mean |-> returned[1],
                            passes |-> passes]

RowOrders(n) ==
    {f \in [1..n -> 1..n] : \A i \in 1..n, j \in 1..n : f[i] = f[j] => i = j}

Permuted(seq, f) == [i \in 1..Len(seq) |-> seq[f[i]]]

\* C4: riemannian_mean and exponential_barycenter each return the same
\* result on a batch and on any joint permutation of its (point, weight)
\* pairs.
C4_PermutationInvariant ==
    pc = "done"
    => \A f \in RowOrders(Len(transfo_vectors)) :
           LET tv == Permuted(transfo_vectors, f)
               w == Permuted(weights, f)
           IN  IF strategy = "riemannian_mean"
               THEN LET run == RiemannianMeanRun(tv, w)
                    IN  \/ Undecided(run)
                        \/ run.status = "returned" /\ run.riem_mean = returned[1]
               ELSE LET run == ExponentialBarycenterRun(tv, w)
                    IN  run.status = "returned" /\ run.mean = returned[1]

\* the tolerance test has failed MaxPasses times or more
TestKeepsFailing == pc = "update" /\ passes = MaxPasses

LastTestMet == ToleranceMet(riem_mean_diff, variance)

\* the call has returned: a converged estimate, or an estimate and a signal
ReportedToCaller == pc = "done" /\ (LastTestMet \/ Len(returned) = 2)

\* C5: a run of riemannian_mean whose tolerance is not met by the cap hands
\* the caller the estimate together with a signal that it was not met: a
\* run whose test keeps failing goes on to return, and what it returns is
\* told apart from a converged run's bare estimate.
C5_NonConvergenceIsReported == TestKeepsFailing ~> (Unfollowed \/ ReportedToCaller)

\* the least batch each function is claimed to accept
MinPoints(s) == IF s = "exponential_barycenter" THEN 1 ELSE 2

\* C6: the call signals an error to the caller exactly when the batch has
\* fewer points than the function requires (1 for exponential_barycenter,
\* 2 for riemannian_mean); read once the call is past its test of the
\* batch size.
C6_ErrorExactlyBelowMinimum ==
    pc \notin {"idle", "entry"}
    => (raised \in {"ValueError", "IndexError"}
        <=> Len(transfo_vectors) < MinPoints(strategy))

\* C7: no call changes an array it was passed (self.identity included),
\* and the array a call returns is a new one.
C7_NoOperationMutatesItsInputs ==
    [][/\ \A r \in live : heap'[r] = heap[r]
       /\ last'.outcome = "returned" => last'.result \notin live]_vars

\* C8: compose(p, inverse(p)) is the identity element [0,0,0,0,0,0].
C8_ComposeWithInverseIsIdentity ==
    (/\ last.op = "compose"
     /\ heap[last.args[2]] = inverse(heap[last.args[1]]))
    => heap[last.result] = IdentityElement

\* compose acted on a rotated, translated p of the caller's and inverse(p)
C8_Witness ==
    /\ last.op = "compose"
    /\ last.args = <<InputRef, ResultRefs[1]>>
    /\ heap[ResultRefs[1]] = inverse(heap[InputRef])
    /\ RotPart(heap[InputRef]) # Zero3
    /\ heap[InputRef][4] # 0
    /\ heap[InputRef][5] # 0
    /\ heap[last.result] = IdentityElement

\* C9: group_exp at a base point other than self.identity returns; at a
\* base point without rotation (where the left translation Jacobian is the
\* identity matrix) what it returns is the base point composed with the
\* exponential from the identity, and at a base point equal in value to the
\* identity it is the exponential from the identity.
C9_ExpAtBasePointReturns ==
    (last.op = "group_exp" /\ last.args[2] # IdentityRef)
    => /\ last.outcome = "returned"
       /\ RotPart(heap[last.args[2]]) = Zero3
          => heap[last.result] = compose(heap[last.args[2]],
                                         group_exp_from_identity(heap[last.args[1]]))
       /\ heap[last.args[2]] = IdentityElement
          => heap[last.result] = group_exp_from_identity(heap[last.args[1]])

\* C10: the variance of the stopping test is the sum, over every row of the
\* batch, of weight_i times the squared distance from the reference
\* estimate to point i (read where a test has just been made).
C10_VarianceSumsEveryRow ==
    (strategy = "riemannian_mean" /\ passes >= 1 /\ pc \in {"update", "done"})
    => variance = FullVariance(riem_mean_next, transfo_vectors, weights,
                               Len(transfo_vectors))

\* C11: in a run of riemannian_mean called with side s, every logarithm,
\* exponential, squared norm and variance that was computed was computed
\* with side s.
C11_EveryStepUsesTheCallersSide ==
    strategy = "riemannian_mean"
    => \A c \in SidedSteps : sides[c] \in {NoSide, mean_left_or_right}

====
